---- MODULE Spec2Model ----
(***************************************************************************)
(* The shared utilities of the bittensor example workers and the agent    *)
(* that is written against them:                                          *)
(*   utils/rate_limiting.py   RateLimiter (wait, handle_rate_limit)       *)
(*   utils/cache.py           Cache (get, get_many, set, _cleanup)        *)
(*   utils/logging.py         ErrorTracker (track)                        *)
(*   bittensor_agent.py       check_mentions                              *)
(*   bittensor_worker.py      BittensorImageWorker._get_tweet_data        *)
(* Time is the value time.time() returns, in whole seconds.  An operation *)
(* runs at one instant, except that a time.sleep() inside it moves the    *)
(* clock.  Each component has a specification of its own.                 *)
(***************************************************************************)
EXTENDS Integers, Sequences, FiniteSets, TLC

VARIABLES
    now,              \* time.time()
    \* RateLimiter fields (rate_limiting.py:17-24)
    window_seconds, max_requests, buffer, min_sleep, max_sleep,
    last_request,     \* self._last_request
    requests_count,   \* self._requests_count
    \* Cache fields (cache.py:23-26)
    cache,            \* self._cache: key -> CacheEntry
    expiry_seconds, cleanup_interval,
    last_cleanup,     \* self._last_cleanup
    threads,          \* the threads that share the cache: position and locals
    committed,        \* per key, the last set() that completed
    \* ErrorTracker fields (logging.py:52-55)
    error_counts,     \* self._error_counts: error_type -> count
    last_reset,       \* self._last_reset
    reset_interval, alert_threshold,
    warnings,         \* per error_type, the warnings logged since the last reset
    \* the agent (bittensor_agent.py) and the worker's social-API client
    pc,               \* position of the worker thread
    bot_id,           \* check_mentions._bot_id is set
    attempt,          \* loop variable of _get_tweet_data
    api_requests,     \* requests sent to the social API
    waits_completed,  \* RateLimiter.wait() calls that returned
    twitter_rate_limiter,  \* bittensor_worker has the attribute
    cm,               \* locals of the running check_mentions call
    loop,             \* check_mentions_loop: position and the cycles so far
    \* observation of the last operation: arguments, result, state before
    call,
    last_set          \* the set() that was the previous operation at this instant

vars == <<now, window_seconds, max_requests, buffer, min_sleep, max_sleep,
          last_request, requests_count, cache, expiry_seconds,
          cleanup_interval, last_cleanup, pc, bot_id, attempt, api_requests,
          waits_completed, twitter_rate_limiter, cm, loop, call, last_set,
          threads, committed, error_counts, last_reset, reset_interval,
          alert_threshold, warnings>>

limiterVars == <<window_seconds, max_requests, buffer, min_sleep, max_sleep,
                 last_request, requests_count>>
limiterConfig == <<window_seconds, max_requests, buffer, min_sleep, max_sleep>>
cacheVars == <<cache, expiry_seconds, cleanup_interval, last_cleanup, last_set,
               threads, committed>>
agentVars == <<pc, bot_id, attempt, api_requests, waits_completed,
               twitter_rate_limiter, cm, loop>>
trackerVars == <<error_counts, last_reset, reset_interval, alert_threshold,
                 warnings>>

----------------------------------------------------------------------------
(* Bounds of the model *)

MaxWindow == 3          \* window_seconds ranges over 2..MaxWindow
MaxRequestsBound == 2   \* max_requests ranges over 1..MaxRequestsBound
MaxBuffer == 2          \* buffer ranges over 0..MaxBuffer
LimiterHorizon == 7     \* seconds of clock the limiter is followed for
MaxOversleep == 1       \* time.sleep(d) returns after d..d+MaxOversleep
MaxCount == 4           \* cap on _requests_count
MaxAttempt == 3         \* attempt ranges over 0..MaxAttempt
MaxRetriesBound == 3    \* max_retries ranges over 0..MaxRetriesBound
BackoffHorizon == 900   \* seconds of clock the backoff is followed for
CacheHorizon == 3       \* seconds of clock the cache is followed for
ThreadsHorizon == 2     \* seconds of clock two threads in the cache are followed for
MaxKeys == 2            \* get_many is called with at most MaxKeys keys
MaxApiRequests == 6     \* social-API requests the worker thread is followed for
AgentHorizon == 720     \* seconds of clock the worker thread is followed for
DetectHorizon == 30     \* seconds of clock detect_image calls are followed for
MaxWiredRequests == 2   \* social-API requests of check_mentions that are followed
WiredHorizon == 200     \* seconds of clock check_mentions is followed for
MaxMentions == 2        \* get_users_mentions returns at most MaxMentions mentions
MaxCycles == 4          \* cycles of check_mentions_loop that are followed
MaxRunTime == 2         \* worker.run takes 0..MaxRunTime seconds
TrackerHorizon == 4     \* seconds of clock the error tracker is followed for
MaxTracked == 3         \* cap on the count of one error_type

Min(a, b) == IF a <= b THEN a ELSE b

RECURSIVE Pow2(_)
Pow2(n) == IF n = 0 THEN 1 ELSE 2 * Pow2(n - 1)

\* time.time() when the objects are constructed: the Unix time, far beyond
\* any window, while _last_request starts at 0.
StartTime == MaxWindow + 1

----------------------------------------------------------------------------
(* Texts of errors: str(error) as a sequence of characters *)

UpperLetters == <<"A","B","C","D","E","F","G","H","I","J","K","L","M",
                  "N","O","P","Q","R","S","T","U","V","W","X","Y","Z">>
LowerLetters == <<"a","b","c","d","e","f","g","h","i","j","k","l","m",
                  "n","o","p","q","r","s","t","u","v","w","x","y","z">>

LowerChar(c) ==
    IF \E i \in 1..Len(UpperLetters) : UpperLetters[i] = c
    THEN LowerLetters[CHOOSE i \in 1..Len(UpperLetters) : UpperLetters[i] = c]
    ELSE c

\* str.lower()
Lower(s) == [i \in 1..Len(s) |-> LowerChar(s[i])]

\* sub in s
Contains(sub, s) ==
    \E i \in 0..(Len(s) - Len(sub)) :
        \A j \in 1..Len(sub) : s[i + j] = sub[j]

Str429 == <<"4","2","9">>
StrRateLimit == <<"r","a","t","e"," ","l","i","m","i","t">>

ErrorTexts ==
    { <<"4","2","9">>,
      <<"H","T","T","P"," ","4","2","9","!">>,
      <<"r","a","t","e"," ","l","i","m","i","t">>,
      <<"R","a","t","e"," ","L","I","M","I","T","!">>,
      <<"r","a","t","e","l","i","m","i","t">>,
      <<"4","2"," ","9">>,
      <<>> }

\* error: Optional[Exception]; None has some = FALSE.  An exception object
\* is truthy whatever its text.
NoError == [some |-> FALSE, text |-> <<>>]
Errors == {NoError} \cup {[some |-> TRUE, text |-> t] : t \in ErrorTexts}

\* A classifier that forgets to lower the text.
IsRateLimitErrorCaseSensitive(error) ==
    Contains(Str429, error.text) \/ Contains(StrRateLimit, error.text)

\* RateLimiter._is_rate_limit_error
IsRateLimitError(error) ==
    LET error_str == Lower(error.text)
    IN  Contains(Str429, error_str) \/ Contains(StrRateLimit, error_str)

----------------------------------------------------------------------------
(* RateLimiter *)

NoCall == [op |-> "none"]

\* A limiter that opens a fresh window one second late.
WindowPassedLate(current_time) ==
    current_time - last_request > window_seconds + 1

\* wait(): the state after the window check of lines 31-34
WindowPassed(current_time) == current_time - last_request > window_seconds

\* A limiter whose threshold test is off by one.
NeedWaitStrict(count) == count > max_requests - buffer

\* wait(): the test of line 37 on the count left by the window check
NeedWait(count) == count >= max_requests - buffer

\* wait(): line 38
WaitTime(current_time, start) == window_seconds - (current_time - start)

\* A limiter that also takes the blocking branch with nothing left to wait.
BlocksAtBoundary(wait_time) == wait_time >= 0

\* wait(): whether lines 44-46 run
Blocks(wait_time) == wait_time > 0

\* wait() called at time current_time, its sleep ending `over` seconds
\* late: the fields it leaves and the time it returns at
WaitReturn(current_time, over) ==
    LET reset == WindowPassed(current_time)
        count1 == IF reset THEN 0 ELSE requests_count
        start1 == IF reset THEN current_time ELSE last_request
        wait_time == WaitTime(current_time, start1)
        sleeps == NeedWait(count1) /\ Blocks(wait_time)
        ret_at == IF sleeps THEN current_time + wait_time + over
                  ELSE current_time
    IN  [ret_at |-> ret_at,
         requests_count |-> (IF sleeps THEN 0 ELSE count1) + 1,
         last_request |-> IF sleeps THEN ret_at ELSE start1,
         reset |-> reset, slept |-> IF sleeps THEN wait_time ELSE 0,
         blocked |-> sleeps]

\* wait().  The sleep of line 44 may end late, and line 46 reads the clock
\* after it.
Wait ==
    \E over \in 0..MaxOversleep :
        LET r == WaitReturn(now, over)
        IN  /\ over > 0 => r.blocked
            /\ now' = r.ret_at
            /\ now' <= StartTime + LimiterHorizon
            /\ requests_count' = r.requests_count
            /\ requests_count' <= MaxCount
            /\ last_request' = r.last_request
            /\ call' = [op |-> "wait", at |-> now, ret_at |-> r.ret_at,
                        pre_count |-> requests_count,
                        pre_start |-> last_request,
                        reset |-> r.reset, slept |-> r.slept,
                        blocked |-> r.blocked,
                        prev_op |-> call.op,
                        prev_ret |-> IF call.op = "none" THEN 0
                                     ELSE call.ret_at]
            /\ UNCHANGED <<limiterConfig, trackerVars, cacheVars, agentVars>>

\* A backoff whose two base waits are swapped.
BaseWaitSwapped(error) == IF error.some THEN min_sleep ELSE 180

\* handle_rate_limit: line 60
BaseWait(error) == IF error.some THEN 180 ELSE min_sleep

\* handle_rate_limit: line 61
BackoffTime(att, error) == Min(BaseWait(error) * Pow2(att), max_sleep)

\* A backoff that allows one attempt more.
GivesUpLate(att, retries, error) ==
    \/ att >= retries
    \/ error.some /\ ~IsRateLimitError(error)

\* A backoff that retries after every kind of error.
GivesUpOnAttemptsOnly(att, retries, error) == att >= retries - 1

\* handle_rate_limit: the early returns of lines 54-58
GivesUp(att, retries, error) ==
    \/ att >= retries - 1
    \/ error.some /\ ~IsRateLimitError(error)

\* A backoff that opens a fresh window when its sleep is over.
HandleRateLimitCreditsWindow(att, retries, error) ==
    LET gives_up == GivesUp(att, retries, error)
        wait_time == BackoffTime(att, error)
    IN  /\ now' = IF gives_up THEN now ELSE now + wait_time
        /\ requests_count' = IF gives_up THEN requests_count ELSE 0
        /\ last_request' = IF gives_up THEN last_request ELSE now'
        /\ call' = [op |-> "handle_rate_limit", at |-> now, ret_at |-> now',
                    attempt |-> att, max_retries |-> retries, error |-> error,
                    ret |-> ~gives_up,
                    slept |-> IF gives_up THEN 0 ELSE wait_time,
                    sleep_called |-> ~gives_up,
                    pre_count |-> requests_count, pre_start |-> last_request]
        /\ UNCHANGED <<limiterConfig, trackerVars, cacheVars, agentVars>>

\* handle_rate_limit.  Nothing reads the clock after the sleep of line 67,
\* so the sleep ends when it is due.
HandleRateLimit(att, retries, error) ==
    LET gives_up == GivesUp(att, retries, error)
        wait_time == BackoffTime(att, error)
    IN  /\ now' = IF gives_up THEN now ELSE now + wait_time
        /\ call' = [op |-> "handle_rate_limit", at |-> now, ret_at |-> now',
                    attempt |-> att, max_retries |-> retries, error |-> error,
                    ret |-> ~gives_up,
                    slept |-> IF gives_up THEN 0 ELSE wait_time,
                    sleep_called |-> ~gives_up,
                    pre_count |-> requests_count, pre_start |-> last_request]
        /\ UNCHANGED <<limiterVars, trackerVars, cacheVars, agentVars>>

\* _is_rate_limit_error called on an exception: a static method, it reads
\* and writes no field
IsRateLimitErrorCall(error) ==
    /\ call' = [op |-> "is_rate_limit_error", at |-> now, error |-> error,
                ret |-> IsRateLimitError(error),
                pre_count |-> requests_count, pre_start |-> last_request]
    /\ UNCHANGED <<now, limiterVars, trackerVars, cacheVars, agentVars>>

Tick ==
    /\ now' = now + 1
    /\ UNCHANGED <<limiterVars, trackerVars, cacheVars, agentVars, call>>

----------------------------------------------------------------------------
(* Cache *)

\* expiry_seconds and cleanup_interval the cache is constructed with
ExpiryChoices == {0, 1, 2}
CleanupIntervalChoices == {1}

Keys == {"", "a", "b"}
Values == {"v1", "v2"}

EmptyCache == [k \in {} |-> [data |-> "v1", timestamp |-> 0]]

\* Optional[T]: None, or the cached data
Absent == [found |-> FALSE, data |-> "none"]
Found(data) == [found |-> TRUE, data |-> data]

NoSet == [some |-> FALSE, key |-> "", value |-> "none", at |-> 0]

\* All lists of at most n keys
RECURSIVE KeyLists(_)
KeyLists(n) ==
    IF n = 0 THEN {<<>>}
    ELSE KeyLists(n - 1) \cup
         {Append(l, k) : l \in {m \in KeyLists(n - 1) : Len(m) = n - 1}, k \in Keys}

\* The lists get_many is called with where two threads share the cache or
\* the run is without end: no key, or one key
LiveKeyLists == KeyLists(1)

\* A cache whose entries are already expired at the age of the TTL.
IsExpiredAtTtl(timestamp, t) == t - timestamp >= expiry_seconds

\* _is_expired, at time t
IsExpired(timestamp, t) == t - timestamp > expiry_seconds

\* A sweep that is already due when exactly cleanup_interval has passed.
ShouldCleanupAtInterval(cleaned_at, t) == t - cleaned_at >= cleanup_interval

\* _should_cleanup, at time t
ShouldCleanup(cleaned_at, t) == t - cleaned_at > cleanup_interval

\* A sweep that keeps the expired entries and drops the others.
CleanupInverted(st, t) ==
    [cache |-> [k \in {x \in DOMAIN st.cache : IsExpired(st.cache[x].timestamp, t)}
                    |-> st.cache[k]],
     last_cleanup |-> t]

\* _cleanup: the dictionary without its expired entries, _last_cleanup = t.
\* Nothing in the try block can raise, so the except branch is never taken.
Cleanup(st, t) ==
    [cache |-> [k \in {x \in DOMAIN st.cache : ~IsExpired(st.cache[x].timestamp, t)}
                    |-> st.cache[k]],
     last_cleanup |-> t]

\* A cache whose reads never sweep.
SweepNever(st, t) == FALSE

\* The guard and call of lines 33-34 and 48-49
SweepDue(st, t) ==
    DOMAIN st.cache # {} /\ ShouldCleanup(st.last_cleanup, t)
MaybeCleanup(st, t) == IF SweepDue(st, t) THEN Cleanup(st, t) ELSE st

\* A read that hides an expired entry and leaves it in the dictionary.
RemoveNothing(c, key) == c

\* del self._cache[key]
Remove(c, key) == [k \in DOMAIN c \ {key} |-> c[k]]

\* get, lines 33-44: a key that passed the test of line 30
GetChecked(st, key, t) ==
    LET st1 == MaybeCleanup(st, t)
    IN  IF key \notin DOMAIN st1.cache
        THEN [cache |-> st1.cache, last_cleanup |-> st1.last_cleanup,
              ret |-> Absent]
        ELSE IF IsExpired(st1.cache[key].timestamp, t)
        THEN [cache |-> Remove(st1.cache, key),
              last_cleanup |-> st1.last_cleanup, ret |-> Absent]
        ELSE [cache |-> st1.cache, last_cleanup |-> st1.last_cleanup,
              ret |-> Found(st1.cache[key].data)]

\* A get without the empty-key test of line 30.
GetUnchecked(st, key, t) == GetChecked(st, key, t)

\* get: cache state and result of get(key) at time t
GetFn(st, key, t) ==
    IF key = ""
    THEN [cache |-> st.cache, last_cleanup |-> st.last_cleanup, ret |-> Absent]
    ELSE GetChecked(st, key, t)

\* get_many, lines 52-59: the loop over keys, on cache c with result so far
RECURSIVE GetManyLoop(_, _, _, _)
GetManyLoop(c, result, keys, t) ==
    IF keys = <<>> THEN [cache |-> c, result |-> result]
    ELSE LET key == Head(keys)
             has == key \in DOMAIN c
             bad == ~has \/ IsExpired(c[key].timestamp, t)
             r == IF bad THEN Absent ELSE Found(c[key].data)
             c1 == IF bad /\ has THEN Remove(c, key) ELSE c
             result1 == [k \in DOMAIN result \cup {key} |->
                            IF k = key THEN r ELSE result[k]]
         IN  GetManyLoop(c1, result1, Tail(keys), t)

\* A get_many that never sweeps.
GetManyNoSweep(st, keys, t) ==
    LET done == GetManyLoop(st.cache, [k \in {} |-> Absent], keys, t)
    IN  [cache |-> done.cache, last_cleanup |-> st.last_cleanup,
         ret |-> done.result]

\* get_many: cache state and result of get_many(keys) at time t
GetManyFn(st, keys, t) ==
    LET st1 == MaybeCleanup(st, t)
        done == GetManyLoop(st1.cache, [k \in {} |-> Absent], keys, t)
    IN  [cache |-> done.cache, last_cleanup |-> st1.last_cleanup,
         ret |-> done.result]

\* A set that keeps the timestamp of the entry it overwrites.
SetKeepsCreatedAt(c, key, value, t) ==
    IF key = "" THEN c
    ELSE [k \in DOMAIN c \cup {key} |->
            IF k = key
            THEN [data |-> value,
                  timestamp |-> IF key \in DOMAIN c THEN c[key].timestamp ELSE t]
            ELSE c[k]]

\* set: the dictionary after set(key, value) at time t
SetFn(c, key, value, t) ==
    IF key = "" THEN c
    ELSE [k \in DOMAIN c \cup {key} |->
            IF k = key THEN [data |-> value, timestamp |-> t] ELSE c[k]]

CacheState == [cache |-> cache, last_cleanup |-> last_cleanup]

Get(key) ==
    LET r == GetFn(CacheState, key, now)
    IN  /\ cache' = r.cache
        /\ last_cleanup' = r.last_cleanup
        /\ last_set' = NoSet
        /\ call' = [op |-> "get", at |-> now, key |-> key, ret |-> r.ret,
                    pre |-> CacheState, after_set |-> last_set]
        /\ UNCHANGED <<now, expiry_seconds, cleanup_interval, limiterVars, trackerVars,
                       agentVars,
                       threads, committed>>

GetMany(keys) ==
    LET r == GetManyFn(CacheState, keys, now)
    IN  /\ cache' = r.cache
        /\ last_cleanup' = r.last_cleanup
        /\ last_set' = NoSet
        /\ call' = [op |-> "get_many", at |-> now, keys |-> keys,
                    ret |-> r.ret, pre |-> CacheState]
        /\ UNCHANGED <<now, expiry_seconds, cleanup_interval, limiterVars, trackerVars,
                       agentVars,
                       threads, committed>>

Set(key, value) ==
    /\ cache' = SetFn(cache, key, value, now)
    /\ last_set' = [some |-> TRUE, key |-> key, value |-> value, at |-> now]
    /\ call' = [op |-> "set", at |-> now, key |-> key, value |-> value,
                pre |-> CacheState]
    /\ UNCHANGED <<now, last_cleanup, expiry_seconds, cleanup_interval,
                   limiterVars, trackerVars, agentVars,
                       threads, committed>>

----------------------------------------------------------------------------
(* Two threads inside one Cache.  The class takes no lock, so a thread can  *)
(* be suspended between any two statements.  A step is a statement; the     *)
(* dictionary comprehension of lines 80-83 is taken in two steps, the new   *)
(* dictionary being built and then assigned to self._cache.                 *)

Threads == {1, 2}

NoEntry == [some |-> FALSE, data |-> "none", timestamp |-> 0]
NoCommit == [some |-> FALSE, value |-> "none", at |-> 0]
NoResult == [k \in {} |-> Absent]

IdleThread ==
    [pc |-> "idle", op |-> "none", keys |-> <<>>, key |-> "",
     entry |-> NoEntry, built |-> EmptyCache, current_time |-> 0,
     result |-> NoResult, ret |-> Absent, raised |-> FALSE,
     expect |-> NoCommit, stable |-> TRUE, done_at |-> 0]

ThreadsInit ==
    /\ threads = [t \in Threads |-> IdleThread]
    /\ committed = [k \in Keys |-> NoCommit]

\* The thread's record when its call returns: the locals are gone; of a
\* get the result and what the call could expect to find are kept.
Returned(th, ret, t) ==
    IF th.op = "get" /\ th.key # ""
    THEN [IdleThread EXCEPT !.op = "get", !.key = th.key, !.ret = ret,
                            !.expect = th.expect,
                            !.stable = th.stable,
                            !.done_at = t]
    ELSE [IdleThread EXCEPT !.op = th.op]

\* The thread's record when its call raises
Raised(th) == [IdleThread EXCEPT !.op = th.op, !.key = th.key, !.raised = TRUE]

\* After the sweep test, and after each key: the next key is read, or the
\* call returns
Proceed(th, t) ==
    IF th.keys = <<>> THEN Returned(th, th.ret, t)
    ELSE [th EXCEPT !.pc = "read"]

\* get, lines 30-33, and get_many, line 48: the call is entered and the
\* sweep test made
ThreadEnter(t, op, keys) ==
    LET th == [IdleThread EXCEPT !.op = op, !.keys = keys,
                   !.key = IF op = "get" THEN keys[1] ELSE "",
                   !.expect = IF op = "get" THEN committed[keys[1]]
                              ELSE NoCommit]
    IN  /\ threads[t].pc = "idle"
        /\ threads' = [threads EXCEPT ![t] =
              IF op = "get" /\ keys[1] = "" THEN Returned(th, Absent, now)
              ELSE IF SweepDue(CacheState, now) THEN [th EXCEPT !.pc = "cleanup"]
              ELSE Proceed(th, now)]
        /\ UNCHANGED <<now, cache, last_cleanup, expiry_seconds,
                       cleanup_interval, last_set, committed, call,
                       limiterVars, trackerVars, agentVars>>

ThreadGet(t, key) == ThreadEnter(t, "get", <<key>>)

ThreadGetMany(t, keys) == ThreadEnter(t, "get_many", keys)

\* _cleanup, lines 77-83: the dictionary without the expired entries is
\* built from the entries self._cache holds now
ThreadCleanupBuild(t) ==
    /\ threads[t].pc = "cleanup"
    /\ threads' = [threads EXCEPT ![t].pc = "assign",
                                  ![t].current_time = now,
                                  ![t].built = Cleanup(CacheState, now).cache]
    /\ UNCHANGED <<now, cache, last_cleanup, expiry_seconds, cleanup_interval,
                   last_set, committed, call, limiterVars, trackerVars, agentVars>>

\* _cleanup, lines 80 and 89: self._cache = <the dictionary built>, and
\* self._last_cleanup = current_time
ThreadCleanupAssign(t) ==
    /\ threads[t].pc = "assign"
    /\ cache' = threads[t].built
    /\ last_cleanup' = threads[t].current_time
    /\ threads' = [threads EXCEPT ![t] =
                      Proceed([threads[t] EXCEPT !.built = EmptyCache,
                                                 !.current_time = 0], now)]
    /\ UNCHANGED <<now, expiry_seconds, cleanup_interval, last_set, committed,
                   call, limiterVars, trackerVars, agentVars>>

\* get, line 36, and get_many, line 53: entry = self._cache.get(key)
ThreadRead(t) ==
    LET th == threads[t]
        key == Head(th.keys)
    IN  /\ th.pc = "read"
        /\ threads' = [threads EXCEPT ![t].pc = "check", ![t].key = key,
              ![t].entry = IF key \in DOMAIN cache
                           THEN [some |-> TRUE, data |-> cache[key].data,
                                 timestamp |-> cache[key].timestamp]
                           ELSE NoEntry]
        /\ UNCHANGED <<now, cache, last_cleanup, expiry_seconds,
                       cleanup_interval, last_set, committed, call,
                       limiterVars, trackerVars, agentVars>>

\* get, lines 37-44, and get_many, lines 54-59: the entry read is tested
\* and, when expired, deleted from the dictionary self._cache is now.
\* del raises KeyError when the key is no longer there.
ThreadCheck(t) ==
    LET th == threads[t]
        expired == th.entry.some /\ IsExpired(th.entry.timestamp, now)
        r == IF th.entry.some /\ ~expired THEN Found(th.entry.data) ELSE Absent
        next == [th EXCEPT !.keys = Tail(th.keys), !.entry = NoEntry,
                    !.ret = IF th.op = "get" THEN r ELSE Absent,
                    !.result = IF th.op = "get" THEN NoResult
                               ELSE [k \in DOMAIN th.result \cup {th.key} |->
                                       IF k = th.key THEN r ELSE th.result[k]]]
    IN  /\ th.pc = "check"
        /\ IF expired /\ th.key \notin DOMAIN cache
           THEN /\ threads' = [threads EXCEPT ![t] = Raised(th)]
                /\ cache' = cache
           ELSE /\ threads' = [threads EXCEPT ![t] = Proceed(next, now)]
                /\ cache' = IF expired THEN Remove(cache, th.key) ELSE cache
        /\ UNCHANGED <<now, last_cleanup, expiry_seconds, cleanup_interval,
                       last_set, committed, call, limiterVars, trackerVars, agentVars>>

\* set, lines 64-66: one statement.  A get of the same key that another
\* thread is inside can no longer expect the value it was entered for.
ThreadSet(t, key, value) ==
    /\ threads[t].pc = "idle"
    /\ cache' = SetFn(cache, key, value, now)
    /\ committed' = IF key = "" THEN committed
                    ELSE [committed EXCEPT ![key] =
                            [some |-> TRUE, value |-> value, at |-> now]]
    /\ threads' = [u \in Threads |->
                      IF u = t THEN [IdleThread EXCEPT !.op = "set"]
                      ELSE IF threads[u].pc # "idle" /\ threads[u].op = "get"
                              /\ threads[u].key = key
                      THEN [threads[u] EXCEPT !.stable = FALSE]
                      ELSE threads[u]]
    /\ UNCHANGED <<now, last_cleanup, expiry_seconds, cleanup_interval,
                   last_set, call, limiterVars, trackerVars, agentVars>>

----------------------------------------------------------------------------
(* ErrorTracker *)

\* reset_interval and alert_threshold the tracker is constructed with
ResetIntervalChoices == {1, 2}
AlertThresholdChoices == {0, 1, 2}

ErrorKinds == {"api", "network"}
\* context: Optional[str]; None and "" are both falsy
Contexts == {"", "fetch"}

NoCounts == [k \in {} |-> 0]

\* dict.get(error_type, 0)
CountOf(counts, error_type) ==
    IF error_type \in DOMAIN counts THEN counts[error_type] ELSE 0

\* counts[error_type] = count
PutCount(counts, error_type, count) ==
    [k \in DOMAIN counts \cup {error_type} |->
        IF k = error_type THEN count ELSE counts[k]]

\* A tracker that already resets when exactly reset_interval has passed.
ResetDueAtInterval(current_time) ==
    current_time - last_reset >= reset_interval

\* _check_reset: the test of line 67
ResetDue(current_time) == current_time - last_reset > reset_interval

\* A tracker that already warns when the count reaches the threshold.
AlertsAtThreshold(count) == count >= alert_threshold

\* _increment_count: the test of line 74
Alerts(count) == count > alert_threshold

\* _log_error: the test of line 83
LogsError(context, error) == context # "" \/ error.some

\* track(): _check_reset, _increment_count, _log_error.  No statement of
\* the three raises for a string error_type.
Track(error_type, context, error) ==
    LET reset == ResetDue(now)
        counts1 == IF reset THEN NoCounts ELSE error_counts
        warnings1 == IF reset THEN NoCounts ELSE warnings
        count == CountOf(counts1, error_type) + 1
        warned == Alerts(count)
    IN  /\ count <= MaxTracked
        /\ error_counts' = PutCount(counts1, error_type, count)
        /\ last_reset' = IF reset THEN now ELSE last_reset
        /\ warnings' = IF warned
                       THEN PutCount(warnings1, error_type,
                                     CountOf(warnings1, error_type) + 1)
                       ELSE warnings1
        /\ call' = [op |-> "track", at |-> now, error_type |-> error_type,
                    context |-> context, error |-> error,
                    pre_counts |-> error_counts, pre_reset |-> last_reset,
                    reset |-> reset, warned |-> warned,
                    logged |-> LogsError(context, error), raised |-> FALSE]
        /\ UNCHANGED <<now, reset_interval, alert_threshold, limiterVars,
                       cacheVars, agentVars>>

----------------------------------------------------------------------------
(* The agent's check_mentions and the worker's _get_tweet_data *)

\* The locals of check_mentions before the mentions are fetched
NoCycle ==
    [cutoff_time |-> 0, mentions_data |-> <<>>, index |-> 0,
     processed_count |-> 0, analyzed_count |-> 0, skipped_count |-> 0]

\* BittensorImageWorker.__init__ sets game_api_key, bittensor_plugin,
\* twitter_plugin and worker, and no twitter_rate_limiter: the attribute
\* that check_mentions reads does not exist.
HasTwitterRateLimiter == FALSE

\* What the social API answers to a request
GetMeOutcomes == {"data", "no_data", "raises", "raises_429"}
GetTweetOutcomes == {"data", "raises_429", "raises_other"}

LOOKBACK_MINUTES == 90

\* The exceptions of the social API and of the inference network that the
\* agent is followed through: one whose text holds 429, one whose text
\* does not
Error429 == [some |-> TRUE, text |-> <<"H","T","T","P"," ","4","2","9","!">>]
ErrorOther == [some |-> TRUE, text |-> <<>>]

\* How a function ends: it returns a (status, message, data) tuple, or an
\* exception leaves it.  calls, slept and replies count what detect_image
\* did: call_subnet calls, seconds slept between them, reply_tweet calls.
Returns(status, calls, slept, replies) ==
    [kind |-> "return", status |-> status, error |-> NoError,
     calls |-> calls, slept |-> slept, replies |-> replies]
Raises(error) ==
    [kind |-> "raise", status |-> "none", error |-> error,
     calls |-> 0, slept |-> 0, replies |-> 0]
NoResult3 == Returns("none", 0, 0, 0)

----------------------------------------------------------------------------
(* BittensorImageWorker.detect_image.  What the calls inside it meet is    *)
(* its environment: how _get_original_tweet and _get_tweet_data end,       *)
(* whether an image URL is found, how each call_subnet attempt and the     *)
(* reply end.  The time _get_original_tweet and _get_tweet_data take is    *)
(* left out.                                                               *)

SubnetOutcomes == {"ok", "error_status", "raises"}

BaseEnv ==
    [original |-> "tweet", tweet_data |-> "data", image |-> TRUE,
     subnet |-> <<"ok", "ok", "ok">>, reply |-> "ok", error |-> NoError]

DetectEnvs ==
    {[BaseEnv EXCEPT !.original = "raises", !.error = e] :
        e \in {Error429, ErrorOther}}
    \cup {[BaseEnv EXCEPT !.tweet_data = "raises", !.error = e] :
        e \in {Error429, ErrorOther}}
    \cup {[BaseEnv EXCEPT !.tweet_data = "none", !.image = FALSE],
          [BaseEnv EXCEPT !.image = FALSE]}
    \cup {[BaseEnv EXCEPT !.subnet = s, !.reply = r] :
        s \in [1..3 -> SubnetOutcomes], r \in {"ok", "raises"}}

\* detect_image, lines 219-240: the loop over call_subnet from attempt att
RECURSIVE CallSubnet(_, _)
CallSubnet(subnet, att) ==
    LET max_retries == 3
    IN  IF subnet[att + 1] = "ok"
        THEN [ok |-> TRUE, calls |-> att + 1, slept |-> 0]
        ELSE IF att < max_retries - 1
        THEN LET rest == CallSubnet(subnet, att + 1)
             IN  [ok |-> rest.ok, calls |-> rest.calls,
                  slept |-> (att + 1) * 5 + rest.slept]
        ELSE [ok |-> FALSE, calls |-> att + 1, slept |-> 0]

\* A detect_image that posts its reply whatever call_subnet gave.
DetectImageBodyAlwaysReplies(env) ==
    IF env.original = "raises" \/ env.tweet_data = "raises"
    THEN Raises(env.error)
    ELSE IF ~env.image THEN Returns("FAILED", 0, 0, 0)
    ELSE LET s == CallSubnet(env.subnet, 0)
         IN  IF env.reply = "raises"
             THEN Returns("FAILED", s.calls, s.slept, 1)
             ELSE Returns("DONE", s.calls, s.slept, 1)

\* detect_image, lines 186-274: the body of the outer try.  An exception of
\* get_user is handled at lines 195-197 and changes no result.
DetectImageBody(env) ==
    IF env.original = "raises" \/ env.tweet_data = "raises"
    THEN Raises(env.error)
    ELSE IF ~env.image THEN Returns("FAILED", 0, 0, 0)
    ELSE LET s == CallSubnet(env.subnet, 0)
         IN  IF ~s.ok THEN Returns("FAILED", s.calls, s.slept, 0)
             ELSE IF env.reply = "raises"
             THEN Returns("FAILED", s.calls, s.slept, 1)
             ELSE Returns("DONE", s.calls, s.slept, 1)

\* A detect_image without the handler of lines 276-278.
DetectImageUncaught(env) == DetectImageBody(env)

\* detect_image: the handler of lines 276-278 turns every exception of the
\* body into a FAILED result
DetectImage(env) ==
    LET r == DetectImageBody(env)
    IN  IF r.kind = "raise" THEN Returns("FAILED", r.calls, r.slept, r.replies)
        ELSE r

\* detect_image called by the worker's own Worker (lines 280-305)
DetectImageCall(env) ==
    LET r == DetectImage(env)
    IN  /\ pc = "idle"
        /\ now' = now + r.slept
        /\ call' = [op |-> "detect_image", env |-> env, result |-> r]
        /\ UNCHANGED <<pc, bot_id, attempt, api_requests, waits_completed,
                       twitter_rate_limiter, cm, loop, limiterVars, trackerVars, cacheVars>>

----------------------------------------------------------------------------
(* check_mentions *)

\* A mention of the list get_users_mentions returns: whether it is a dict
\* with an 'id', whether its 'created_at' parses, and the time it parses to
MentionsAround(cutoff_time) ==
    {[valid |-> TRUE, dated |-> TRUE, created_at |-> cutoff_time + d] :
        d \in {-1, 0, 1}}
    \cup {[valid |-> FALSE, dated |-> TRUE, created_at |-> cutoff_time],
          [valid |-> TRUE, dated |-> FALSE, created_at |-> 0]}

\* All lists of 1 to n mentions
RECURSIVE MentionLists(_, _)
MentionLists(cutoff_time, n) ==
    IF n = 0 THEN {<<>>}
    ELSE LET shorter == MentionLists(cutoff_time, n - 1)
         IN  shorter \cup
             {Append(l, m) : l \in {x \in shorter : Len(x) = n - 1},
                             m \in MentionsAround(cutoff_time)}

\* What get_users_mentions answers: a dict with mentions, a dict without
\* 'data', nothing, or an exception
FetchOutcomes ==
    {[kind |-> k, data |-> <<>>] :
        k \in {"none", "empty", "raises_429", "raises_other"}}
    \cup {[kind |-> "mentions", data |-> l] :
        l \in MentionLists(cm.cutoff_time, MaxMentions) \ {<<>>}}

\* The record of a step of check_mentions: the status returned ("running"
\* while the call goes on), the mention the step was about, how often and
\* with what results detect_image was called for it, the exception the
\* step's request raised, and whether handle_rate_limit was called
CheckMentionsStep(step, status) ==
    [op |-> "check_mentions", step |-> step, status |-> status,
     mention |-> [valid |-> FALSE, dated |-> FALSE, created_at |-> 0],
     detect_calls |-> 0, first |-> NoResult3, handled |-> FALSE,
     second |-> NoResult3, at |-> now, error |-> NoError]

\* check_mentions, lines 116-119: the handler of the outer try turns every
\* exception of the body into a FAILED result
CheckMentionsResult(r) == IF r.kind = "raise" THEN "FAILED" ELSE r.status

\* check_mentions, lines 25-33: the cutoff is computed, then get_me is
\* requested unless the bot id is memoized
CheckMentionsBegin ==
    /\ pc = "idle"
    /\ pc' = IF bot_id THEN "cm_wait" ELSE "cm_get_me"
    /\ cm' = [NoCycle EXCEPT !.cutoff_time = now - LOOKBACK_MINUTES * 60]
    /\ call' = CheckMentionsStep("begin", "running")
    /\ UNCHANGED <<now, bot_id, attempt, api_requests, waits_completed,
                   twitter_rate_limiter, loop, limiterVars, trackerVars, cacheVars>>

\* The handler of lines 48-53 for exception e.  Line 49 reads
\* twitter_rate_limiter: without the attribute that raises AttributeError.
\* With it, a rate-limit error is answered by handle_rate_limit(0, 3, e)
\* and a FAILED result, any other error is raised again.  handled tells
\* whether handle_rate_limit was called.
FetchHandler(e) ==
    IF ~twitter_rate_limiter
    THEN [result |-> Raises(ErrorOther), slept |-> 0, handled |-> FALSE]
    ELSE IF IsRateLimitError(e)
    THEN [result |-> Returns("FAILED", 0, 0, 0),
          slept |-> IF GivesUp(0, 3, e) THEN 0 ELSE BackoffTime(0, e),
          handled |-> TRUE]
    ELSE [result |-> Raises(e), slept |-> 0, handled |-> FALSE]

\* check_mentions, lines 34-38 and the handlers of lines 48-53 and 116-119
CheckMentionsGetMe(outcome) ==
    LET e == IF outcome = "raises_429" THEN Error429 ELSE ErrorOther
        raised == outcome \in {"raises", "raises_429"}
        h == FetchHandler(e)
    IN  /\ pc = "cm_get_me"
        /\ api_requests' = api_requests + 1
        /\ bot_id' = (outcome = "data")
        /\ pc' = IF outcome = "data" THEN "cm_wait" ELSE "idle"
        /\ now' = IF raised THEN now + h.slept ELSE now
        /\ call' = IF outcome = "data" THEN call
                   ELSE IF raised
                   THEN [CheckMentionsStep("get_me",
                                           CheckMentionsResult(h.result))
                            EXCEPT !.error = e, !.handled = h.handled]
                   ELSE CheckMentionsStep("get_me", "FAILED")
        /\ UNCHANGED <<attempt, waits_completed, twitter_rate_limiter, cm,
                       loop, limiterVars, trackerVars, cacheVars>>

\* check_mentions, line 41: bittensor_worker.twitter_rate_limiter.wait().
\* Without the attribute, reading it raises AttributeError before wait()
\* is called; the handler of line 48 raises it again at line 49, and the
\* handler of line 116 returns FAILED.  get_users_mentions is not
\* requested.
CheckMentionsWait ==
    /\ pc = "cm_wait"
    /\ IF twitter_rate_limiter
       THEN \E over \in 0..MaxOversleep :
               LET r == WaitReturn(now, over)
               IN  /\ over > 0 => r.blocked
                   /\ now' = r.ret_at
                   /\ requests_count' = r.requests_count
                   /\ last_request' = r.last_request
                   /\ waits_completed' = waits_completed + 1
                   /\ pc' = "cm_fetch"
                   /\ call' = call
       ELSE /\ pc' = "idle"
            /\ call' = CheckMentionsStep("wait",
                           CheckMentionsResult(FetchHandler(ErrorOther).result))
            /\ UNCHANGED <<now, requests_count, last_request, waits_completed>>
    /\ UNCHANGED <<bot_id, attempt, api_requests, twitter_rate_limiter, cm,
                   loop, limiterConfig, trackerVars, cacheVars>>

\* check_mentions, lines 42-65: get_users_mentions is requested; then the
\* handler of lines 48-53, or the tests of lines 55-61 and the counters
CheckMentionsFetch(outcome) ==
    LET raised == outcome.kind \in {"raises_429", "raises_other"}
        e == IF outcome.kind = "raises_429" THEN Error429 ELSE ErrorOther
        h == FetchHandler(e)
        loops == outcome.kind = "mentions"
    IN  /\ pc = "cm_fetch"
        /\ api_requests' = api_requests + 1
        /\ now' = IF raised THEN now + h.slept ELSE now
        /\ pc' = IF loops THEN "cm_loop" ELSE "idle"
        /\ cm' = IF loops
                 THEN [cm EXCEPT !.mentions_data = outcome.data, !.index = 1]
                 ELSE cm
        /\ call' = IF loops THEN CheckMentionsStep("fetch", "running")
                   ELSE IF raised
                   THEN [CheckMentionsStep("fetch",
                                           CheckMentionsResult(h.result))
                            EXCEPT !.error = e, !.handled = h.handled]
                   ELSE CheckMentionsStep("fetch", "DONE")
        /\ UNCHANGED <<bot_id, attempt, waits_completed, twitter_rate_limiter,
                       loop, limiterVars, trackerVars, cacheVars>>

\* A loop that also skips the mention created at the cutoff.
TooOldOrAtCutoff(mention, cutoff_time) == mention.created_at <= cutoff_time

\* check_mentions, line 75: the mention is older than the cutoff
TooOld(mention, cutoff_time) == mention.created_at < cutoff_time

\* A loop that analyses every mention a second time.
RetryAlways(first) == TRUE

\* check_mentions, lines 89-92: whether detect_image is called again after
\* its first call ended as `first`
RetryAnalysis(first) ==
    /\ first.kind = "raise"
    /\ IsRateLimitError(first.error)
    /\ ~GivesUp(0, 3, first.error)

\* The environments a second detect_image call can meet after a first
\* call that met env1: there is one only when the call is made
SecondEnvs(env1) ==
    IF RetryAnalysis(DetectImage(env1)) THEN DetectEnvs ELSE {BaseEnv}

\* check_mentions, lines 67-106: one pass of the loop over mentions_data,
\* with the environments the first and the second detect_image call meet
CheckMentionsMention(env1, env2) ==
    LET mention == cm.mentions_data[cm.index]
        at_end == cm.index = Len(cm.mentions_data)
        step == [CheckMentionsStep("mention", "running") EXCEPT
                    !.mention = mention]
        first == DetectImage(env1)
        classified == first.kind = "raise" /\ IsRateLimitError(first.error)
        retry == RetryAnalysis(first)
        second == DetectImage(env2)
        persists == /\ retry /\ second.kind = "raise"
                    /\ IsRateLimitError(second.error)
        done1 == IF first.kind = "return" /\ first.status = "DONE" THEN 1 ELSE 0
        done2 == IF retry /\ second.kind = "return" /\ second.status = "DONE"
                 THEN 1 ELSE 0
        slept == first.slept
                 + (IF classified /\ retry THEN BackoffTime(0, first.error) ELSE 0)
                 + (IF retry THEN second.slept ELSE 0)
        next_pc == IF at_end THEN "cm_summary" ELSE "cm_loop"
    IN  /\ pc = "cm_loop"
        /\ ~retry => env2 = BaseEnv
        /\ IF ~mention.valid
           THEN /\ cm' = [cm EXCEPT !.index = @ + 1]
                /\ pc' = next_pc
                /\ now' = now
                /\ call' = step
                /\ env1 = BaseEnv /\ env2 = BaseEnv
           ELSE IF ~mention.dated
           THEN /\ cm' = cm
                /\ pc' = "idle"
                /\ now' = now
                /\ call' = [step EXCEPT
                              !.status = CheckMentionsResult(Raises(ErrorOther))]
                /\ env1 = BaseEnv /\ env2 = BaseEnv
           ELSE IF TooOld(mention, cm.cutoff_time)
           THEN /\ cm' = [cm EXCEPT !.index = @ + 1, !.skipped_count = @ + 1]
                /\ pc' = next_pc
                /\ now' = now
                /\ call' = step
                /\ env1 = BaseEnv /\ env2 = BaseEnv
           ELSE /\ now' = now + slept
                /\ call' = [step EXCEPT
                              !.detect_calls = IF retry THEN 2 ELSE 1,
                              !.first = first,
                              !.handled = classified /\ retry,
                              !.second = IF retry THEN second ELSE NoResult3,
                              !.status = IF persists THEN "FAILED" ELSE "running"]
                /\ cm' = IF persists
                         THEN [cm EXCEPT !.analyzed_count = @ + done1]
                         ELSE [cm EXCEPT !.index = @ + 1,
                                         !.analyzed_count = @ + done1 + done2,
                                         !.processed_count = @ + 1]
                /\ pc' = IF persists THEN "idle" ELSE next_pc
        /\ UNCHANGED <<bot_id, attempt, api_requests, waits_completed,
                       twitter_rate_limiter, loop, limiterVars, trackerVars, cacheVars>>

\* check_mentions, lines 108-114: the summary, and DONE
CheckMentionsSummary ==
    /\ pc = "cm_summary"
    /\ pc' = "idle"
    /\ call' = CheckMentionsStep("summary", "DONE")
    /\ UNCHANGED <<now, bot_id, attempt, api_requests, waits_completed,
                   twitter_rate_limiter, cm, loop, limiterVars, trackerVars, cacheVars>>

\* _get_tweet_data, line 90
GetTweetWaitTime(att) == 60 * (att + 1)

\* A worker that allows itself one request more.
GetTweetLastAttemptLate(att) == att = 3

\* _get_tweet_data, line 93, with max_retries = 3
GetTweetLastAttempt(att) == att = 3 - 1

\* _get_tweet_data, lines 77-80: called by detect_image and
\* _get_original_tweet
GetTweetDataBegin ==
    /\ pc = "idle"
    /\ pc' = "get_tweet"
    /\ attempt' = 0
    /\ call' = [op |-> "_get_tweet_data", status |-> "running", at |-> now,
                requests |-> 0, sleeps |-> <<>>, outcome |-> "none"]
    /\ UNCHANGED <<now, bot_id, api_requests, waits_completed, limiterVars,
                   trackerVars, cacheVars, twitter_rate_limiter, cm, loop>>

\* _get_tweet_data, lines 81-97: one pass of the loop, the get_tweet request
\* and what follows its outcome
GetTweetDataAttempt(outcome) ==
    LET wait_time == GetTweetWaitTime(attempt)
        last == GetTweetLastAttempt(attempt)
        status == CASE outcome = "data" -> "returns data"
                    [] outcome = "raises_429" /\ last -> "raises RuntimeError"
                    [] outcome = "raises_429" /\ ~last -> "running"
                    [] OTHER -> "returns None"
    IN  /\ pc = "get_tweet"
        /\ api_requests' = api_requests + 1
        /\ now' = IF outcome = "raises_429" THEN now + wait_time ELSE now
        /\ attempt' = IF status = "running" THEN attempt + 1 ELSE attempt
        /\ pc' = IF status = "running" THEN "get_tweet" ELSE "idle"
        /\ call' = [op |-> "_get_tweet_data", status |-> status,
                    at |-> call.at, requests |-> call.requests + 1,
                    sleeps |-> IF outcome = "raises_429"
                               THEN Append(call.sleeps, wait_time)
                               ELSE call.sleeps,
                    outcome |-> outcome]
        /\ UNCHANGED <<bot_id, waits_completed, limiterVars, trackerVars,
                       cacheVars, twitter_rate_limiter, cm, loop>>

----------------------------------------------------------------------------
(* check_mentions_loop, the target of the mention_checker thread *)

CHECK_INTERVAL_MINUTES == 45

\* How worker.run(...) ends: it returns, or it raises an Exception
RunOutcomes == {"returns", "raises"}

\* The thread before its first cycle
LoopInit ==
    [pc |-> "top", cycles |-> 0, started_at |-> 0, previous_start |-> 0,
     outcome |-> "none", slept |-> 0]

\* A loop that starts the next cycle at once after a cycle that raised.
NoCooldown(outcome) ==
    IF outcome = "raises" THEN 0 ELSE CHECK_INTERVAL_MINUTES * 60

\* The argument of time.sleep at line 156 and at line 161
LoopSleepTime(outcome) ==
    IF outcome = "raises" THEN 300 ELSE CHECK_INTERVAL_MINUTES * 60

\* line 158: except Exception
LoopCatches(outcome) == outcome = "raises"

\* lines 147-150: the top of the while loop; worker.run is called
LoopStartCycle ==
    /\ loop.pc = "top"
    /\ loop.cycles < MaxCycles
    /\ loop' = [loop EXCEPT !.pc = "run", !.cycles = @ + 1,
                            !.started_at = now,
                            !.previous_start = loop.started_at]
    /\ UNCHANGED <<now, limiterVars, trackerVars, cacheVars, pc, bot_id, attempt,
                   api_requests, waits_completed, twitter_rate_limiter, cm,
                   call>>

\* line 150: worker.run ends after d seconds
LoopCycleEnds(outcome, d) ==
    /\ loop.pc = "run"
    /\ now' = now + d
    /\ loop' = [loop EXCEPT !.outcome = outcome,
                  !.pc = IF outcome = "returns" \/ LoopCatches(outcome)
                         THEN "sleep" ELSE "dead"]
    /\ UNCHANGED <<limiterVars, trackerVars, cacheVars, pc, bot_id, attempt, api_requests,
                   waits_completed, twitter_rate_limiter, cm, call>>

\* lines 152-156 after a cycle that returned, lines 159-161 after a cycle
\* that raised: time.sleep, which may end late, and back to the top
LoopSleep(over) ==
    /\ loop.pc = "sleep"
    /\ now' = now + LoopSleepTime(loop.outcome) + over
    /\ loop' = [loop EXCEPT !.pc = "top",
                            !.slept = LoopSleepTime(loop.outcome)]
    /\ UNCHANGED <<limiterVars, trackerVars, cacheVars, pc, bot_id, attempt, api_requests,
                   waits_completed, twitter_rate_limiter, cm, call>>

----------------------------------------------------------------------------
(* Initial states: the objects as their constructors leave them *)

CacheInit ==
    /\ cache = EmptyCache
    /\ expiry_seconds = 1
    /\ cleanup_interval = 1
    /\ last_cleanup = StartTime
    /\ last_set = NoSet
    /\ ThreadsInit

AgentInit ==
    /\ pc = "idle"
    /\ bot_id = FALSE
    /\ attempt = 0
    /\ api_requests = 0
    /\ waits_completed = 0
    /\ twitter_rate_limiter = HasTwitterRateLimiter
    /\ cm = NoCycle
    /\ loop = LoopInit

\* ErrorTracker.__init__
ErrorTrackerInit(intervals, thresholds) ==
    /\ error_counts = NoCounts
    /\ last_reset = now
    /\ reset_interval \in intervals
    /\ alert_threshold \in thresholds
    /\ warnings = NoCounts

\* RateLimiter.__init__
LimiterInit(windows, maxes, buffers, mins, maxs) ==
    /\ window_seconds \in windows
    /\ max_requests \in maxes
    /\ buffer \in buffers
    /\ min_sleep \in mins
    /\ max_sleep \in maxs
    /\ last_request = 0
    /\ requests_count = 0

(* The limiter under wait() and a clock *)
InitLimiter ==
    /\ now = StartTime
    /\ LimiterInit(2..MaxWindow, 1..MaxRequestsBound, 0..MaxBuffer, {60}, {900})
    /\ CacheInit
    /\ AgentInit
    /\ ErrorTrackerInit({3600}, {10})
    /\ call = NoCall

NextLimiter ==
    \/ now < StartTime + LimiterHorizon /\ Tick
    \/ Wait

SpecLimiter == InitLimiter /\ [][NextLimiter]_vars

(* The limiter under wait() and handle_rate_limit() and a clock, with      *)
(* sleeps short enough to be followed                                       *)
InitLimiterBackoff ==
    /\ now = StartTime
    /\ LimiterInit({2, 3}, {2}, {1}, {1}, {2})
    /\ CacheInit
    /\ AgentInit
    /\ ErrorTrackerInit({3600}, {10})
    /\ call = NoCall

NextLimiterBackoff ==
    \/ now < StartTime + LimiterHorizon /\ Tick
    \/ Wait
    \/ \E att \in 0..MaxAttempt, retries \in 0..MaxRetriesBound,
          error \in {NoError, Error429, ErrorOther} :
        /\ HandleRateLimit(att, retries, error)
        /\ now' <= StartTime + LimiterHorizon

SpecLimiterBackoff == InitLimiterBackoff /\ [][NextLimiterBackoff]_vars

(* The cache under get, get_many, set and a clock *)
InitCache ==
    /\ now = StartTime
    /\ LimiterInit({900}, {15}, {1}, {60}, {900})
    /\ cache = EmptyCache
    /\ expiry_seconds \in ExpiryChoices
    /\ cleanup_interval \in CleanupIntervalChoices
    /\ last_cleanup = StartTime
    /\ last_set = NoSet
    /\ ThreadsInit
    /\ AgentInit
    /\ ErrorTrackerInit({3600}, {10})
    /\ call = NoCall

NextCache ==
    \/ now < StartTime + CacheHorizon /\ Tick
    \/ \E key \in Keys : Get(key)
    \/ \E keys \in KeyLists(MaxKeys) : GetMany(keys)
    \/ \E key \in Keys, value \in Values : Set(key, value)

SpecCache == InitCache /\ [][NextCache]_vars

(* The cache in runs without end.  The cache reads the clock only to        *)
(* subtract a stored time from it and to compare the difference with        *)
(* expiry_seconds or cleanup_interval (lines 69, 72, 79-84), so a second    *)
(* passing is the same as every stored time lying a second further back,    *)
(* and ages beyond both thresholds need not be told apart.                  *)
AgeCap ==
    (IF expiry_seconds >= cleanup_interval THEN expiry_seconds
     ELSE cleanup_interval) + 1

\* time.time() is one second later, relative to the stored times
TickRelative ==
    LET Back(t) == IF t - 1 >= now - AgeCap THEN t - 1 ELSE now - AgeCap
    IN  /\ cache' = [k \in DOMAIN cache |->
                        [data |-> cache[k].data,
                         timestamp |-> Back(cache[k].timestamp)]]
        /\ last_cleanup' = Back(last_cleanup)
        /\ last_set' = NoSet
        /\ call' = NoCall
        /\ UNCHANGED <<now, expiry_seconds, cleanup_interval, threads,
                       committed, limiterVars, trackerVars, agentVars>>

\* a call of get, get_many or set, with any argument
CacheOperation ==
    \/ \E key \in Keys : Get(key)
    \/ \E keys \in LiveKeyLists : GetMany(keys)
    \/ \E key \in Keys, value \in Values : Set(key, value)

\* a call that reaches the sweep test: get of a non-empty key, or get_many
SweepingRead ==
    \/ \E key \in Keys \ {""} : Get(key)
    \/ \E keys \in LiveKeyLists : GetMany(keys)

NextCacheLive ==
    \/ TickRelative
    \/ \E key \in Keys : Get(key)
    \/ \E keys \in LiveKeyLists : GetMany(keys)
    \/ \E key \in Keys, value \in Values : Set(key, value)

\* Two threads that call get, get_many and set on one cache
NextCacheThreads ==
    \/ now < StartTime + ThreadsHorizon /\ Tick
    \/ \E t \in Threads, key \in Keys : ThreadGet(t, key)
    \/ \E t \in Threads, keys \in LiveKeyLists : ThreadGetMany(t, keys)
    \/ \E t \in Threads : ThreadCleanupBuild(t)
    \/ \E t \in Threads : ThreadCleanupAssign(t)
    \/ \E t \in Threads : ThreadRead(t)
    \/ \E t \in Threads : ThreadCheck(t)
    \/ \E t \in Threads, key \in Keys, value \in Values :
        ThreadSet(t, key, value)

InitCacheThreads ==
    /\ now = StartTime
    /\ LimiterInit({900}, {15}, {1}, {60}, {900})
    /\ CacheInit
    /\ AgentInit
    /\ ErrorTrackerInit({3600}, {10})
    /\ call = NoCall

SpecCacheThreads == InitCacheThreads /\ [][NextCacheThreads]_vars

\* Time keeps advancing and operations on the cache keep occurring.
SpecCacheLive ==
    /\ InitCache
    /\ [][NextCacheLive]_vars
    /\ WF_vars(TickRelative)
    /\ WF_vars(CacheOperation)

(* The worker thread: check_mentions cycles and _get_tweet_data calls *)
InitAgent ==
    /\ now = StartTime
    /\ LimiterInit({900}, {15}, {1}, {60}, {900})
    /\ CacheInit
    /\ AgentInit
    /\ ErrorTrackerInit({3600}, {10})
    /\ call = NoCall

NextAgent ==
    \/ CheckMentionsBegin
    \/ \E outcome \in GetMeOutcomes :
        api_requests < MaxApiRequests /\ CheckMentionsGetMe(outcome)
    \/ CheckMentionsWait
    \/ \E env \in DetectEnvs :
        DetectImageCall(env) /\ now' <= StartTime + DetectHorizon
    \/ GetTweetDataBegin
    \/ \E outcome \in GetTweetOutcomes :
        /\ api_requests < MaxApiRequests
        /\ GetTweetDataAttempt(outcome)
        /\ now' <= StartTime + AgentHorizon

SpecAgent == InitAgent /\ [][NextAgent]_vars

(* The worker thread of a worker that holds the twitter_rate_limiter that  *)
(* check_mentions reads: a RateLimiter with the limits of                  *)
(* TwitterRateLimitConfig, constructed long before.                        *)
InitAgentWired ==
    /\ now = 900 + 1
    /\ LimiterInit({900}, {15}, {1}, {60}, {900})
    /\ CacheInit
    /\ pc = "idle"
    /\ bot_id = FALSE
    /\ attempt = 0
    /\ api_requests = 0
    /\ waits_completed = 0
    /\ twitter_rate_limiter = TRUE
    /\ cm = NoCycle
    /\ loop = LoopInit
    /\ ErrorTrackerInit({3600}, {10})
    /\ call = NoCall

NextAgentWired ==
    \/ CheckMentionsBegin
    \/ \E outcome \in GetMeOutcomes :
        /\ api_requests < MaxWiredRequests
        /\ CheckMentionsGetMe(outcome)
        /\ now' <= 900 + 1 + WiredHorizon
    \/ CheckMentionsWait
    \/ \E outcome \in FetchOutcomes :
        /\ api_requests < MaxWiredRequests
        /\ CheckMentionsFetch(outcome)
        /\ now' <= 900 + 1 + WiredHorizon
    \/ \E env1 \in DetectEnvs : \E env2 \in SecondEnvs(env1) :
        /\ CheckMentionsMention(env1, env2)
        /\ now' <= 900 + 1 + WiredHorizon
    \/ CheckMentionsSummary

SpecAgentWired == InitAgentWired /\ [][NextAgentWired]_vars

(* The polling thread.  worker.run, the sleeps and the thread itself are   *)
(* taken to make progress: a cycle that was started ends, a sleep returns. *)
NextLoop ==
    \/ LoopStartCycle
    \/ \E outcome \in RunOutcomes, d \in 0..MaxRunTime :
        LoopCycleEnds(outcome, d)
    \/ \E over \in 0..MaxOversleep : LoopSleep(over)

SpecLoop == InitAgent /\ [][NextLoop]_vars /\ WF_vars(NextLoop)

(* The error tracker under track() and a clock *)
InitTracker ==
    /\ now = StartTime
    /\ LimiterInit({900}, {15}, {1}, {60}, {900})
    /\ CacheInit
    /\ AgentInit
    /\ ErrorTrackerInit(ResetIntervalChoices, AlertThresholdChoices)
    /\ call = NoCall

NextTracker ==
    \/ now < StartTime + TrackerHorizon /\ Tick
    \/ \E error_type \in ErrorKinds, context \in Contexts,
          error \in {NoError, Error429} :
        Track(error_type, context, error)

SpecTracker == InitTracker /\ [][NextTracker]_vars

(* The backoff helper, with the limits of constants.py *)
InitBackoff ==
    /\ now = StartTime
    /\ LimiterInit({900}, {15}, {1}, {60}, {30, 900})
    /\ CacheInit
    /\ AgentInit
    /\ ErrorTrackerInit({3600}, {10})
    /\ call = NoCall

NextBackoff ==
    \/ \E att \in 0..MaxAttempt, retries \in 0..MaxRetriesBound,
          error \in Errors :
        /\ HandleRateLimit(att, retries, error)
        /\ now' <= StartTime + BackoffHorizon
    \/ \E error \in Errors \ {NoError} : IsRateLimitErrorCall(error)

SpecBackoff == InitBackoff /\ [][NextBackoff]_vars

----------------------------------------------------------------------------
(* RateLimiter.wait: claims *)

BufferInRange == 0 <= buffer /\ buffer < max_requests

\* C1: with 0 <= buffer < max_requests, count_in_window never exceeds
\* max_requests, whatever the sequence of wait() calls and passage of time.
C1_CountNeverExceedsMax ==
    BufferInRange => requests_count <= max_requests

\* C4: with 0 <= buffer < max_requests, a wait() call that finds the window
\* fully elapsed returns without blocking in a fresh window; within the
\* window the calls that find fewer than max_requests - buffer requests
\* counted return without blocking, and the call that finds the threshold
\* reached blocks for window_seconds - (now - window_start), returning only
\* once the window has rolled over.
C4_BlocksOnlyAtThreshold ==
    (call.op = "wait" /\ BufferInRange) =>
        LET elapsed == call.at - call.pre_start
            threshold == max_requests - buffer
        IN  /\ elapsed > window_seconds =>
                /\ ~call.blocked /\ call.slept = 0
                /\ requests_count = 1 /\ last_request = call.at
            /\ (elapsed <= window_seconds /\ call.pre_count < threshold) =>
                /\ ~call.blocked /\ call.slept = 0
                /\ call.ret_at = call.at
            /\ (elapsed <= window_seconds /\ call.pre_count >= threshold) =>
                /\ call.slept = window_seconds - elapsed
                /\ call.blocked <=> call.slept > 0
                /\ call.ret_at >= call.at + call.slept
                /\ call.ret_at - call.pre_start >= window_seconds

C4_Witness ==
    /\ call.op = "wait" /\ BufferInRange
    /\ call.pre_count = max_requests - buffer
    /\ call.at - call.pre_start < window_seconds
    /\ call.blocked /\ call.slept = window_seconds - (call.at - call.pre_start)
    /\ call.slept > 0

\* C15: a wait() call made with now - window_start > window_seconds (and
\* buffer < max_requests) does not block, and on return count_in_window = 1
\* and window_start = now, whatever the count was before the call.
C15_ElapsedWindowResets ==
    (/\ call.op = "wait"
     /\ call.at - call.pre_start > window_seconds
     /\ buffer < max_requests) =>
        /\ ~call.blocked /\ call.slept = 0 /\ call.ret_at = call.at
        /\ requests_count = 1
        /\ last_request = call.at

\* a later window, entered with more than one request counted
C15_Witness ==
    /\ call.op = "wait" /\ buffer < max_requests
    /\ call.pre_start > 0 /\ call.pre_count >= 2
    /\ call.at - call.pre_start > window_seconds
    /\ requests_count = 1 /\ last_request = call.at

\* C16: every wait() call adds exactly 1 to count_in_window as its last
\* step: a call that neither resets nor blocks returns with the old count
\* plus 1 and window_start unchanged; a call that blocks returns with
\* count_in_window = 1 and window_start equal to the time at the end of the
\* block.
C16_CountsTheCall ==
    call.op = "wait" =>
        LET elapsed == call.at - call.pre_start
            reset == elapsed > window_seconds
            count1 == IF reset THEN 0 ELSE call.pre_count
            start1 == IF reset THEN call.at ELSE call.pre_start
            blocks == /\ count1 >= max_requests - buffer
                      /\ window_seconds - (call.at - start1) > 0
        IN  /\ requests_count = (IF blocks THEN 0 ELSE count1) + 1
            /\ (~reset /\ ~blocks) =>
                /\ requests_count = call.pre_count + 1
                /\ last_request = call.pre_start
                /\ call.ret_at = call.at
            /\ blocks =>
                /\ call.blocked
                /\ requests_count = 1
                /\ last_request = call.ret_at
                /\ call.ret_at >= call.at + call.slept

\* a block that ends later than asked for
C16_Witness ==
    /\ call.op = "wait" /\ call.blocked /\ ~call.reset
    /\ call.pre_count >= 1
    /\ call.ret_at > call.at + call.slept
    /\ requests_count = 1 /\ last_request = call.ret_at

\* with buffer >= max_requests: a wait() that does not start exactly
\* window_seconds after _last_request blocks, and one that finds the window
\* passed (the first call on a new limiter is one) sleeps window_seconds
C29_BlocksOffBoundary ==
    (call.op = "wait" /\ buffer >= max_requests) =>
        /\ call.at - call.pre_start # window_seconds => call.blocked
        /\ call.reset => call.blocked /\ call.slept = window_seconds

\* with buffer >= max_requests: two wait() calls in a row return at least
\* window_seconds apart
C29_OnePerWindow ==
    (call.op = "wait" /\ buffer >= max_requests /\ call.prev_op = "wait") =>
        call.ret_at - call.prev_ret >= window_seconds

\* C29: on a limiter with buffer >= max_requests no wait() call made
\* strictly inside the window or strictly after it returns without
\* blocking; the first call on a new limiter and every call that finds
\* the window passed sleep a full window_seconds; and the limiter lets at
\* most one request through per window_seconds.
C29_FullBufferOnePerWindow == C29_BlocksOffBoundary /\ C29_OnePerWindow

----------------------------------------------------------------------------
(* RateLimiter.handle_rate_limit: claims *)

\* C5 as stated: handle_rate_limit(attempt=2, max_retries=3, error=<text
\* containing 429>) returns true after sleeping min(180*2^2, max_sleep).
C5_Original ==
    (/\ call.op = "handle_rate_limit"
     /\ call.attempt = 2 /\ call.max_retries = 3
     /\ call.error.some /\ Contains(Str429, call.error.text)) =>
        /\ call.ret = TRUE
        /\ call.slept = Min(180 * 4, max_sleep)

\* C5 as amended: handle_rate_limit(attempt=2, max_retries=3, error=<429>)
\* returns false without sleeping, because attempt >= max_retries - 1; with
\* attempt=1 it returns true after sleeping min(180*2^1, max_sleep).
C5_LastAttemptGivesUp ==
    (/\ call.op = "handle_rate_limit"
     /\ call.max_retries = 3
     /\ call.error.some /\ Contains(Str429, call.error.text)) =>
        /\ call.attempt = 2 =>
            /\ call.ret = FALSE
            /\ ~call.sleep_called /\ call.slept = 0 /\ call.ret_at = call.at
        /\ call.attempt = 1 =>
            /\ call.ret = TRUE
            /\ call.sleep_called /\ call.slept = Min(180 * 2, max_sleep)
            /\ call.ret_at = call.at + call.slept

C5_Witness ==
    /\ call.op = "handle_rate_limit"
    /\ call.attempt = 2 /\ call.max_retries = 3
    /\ call.error.some /\ Contains(Str429, call.error.text)
    /\ call.ret = FALSE

\* C6: handle_rate_limit returns false without sleeping whenever
\* attempt >= max_retries - 1 and whenever an error is supplied that
\* is_rate_limit_error classifies as not rate-limit; in every other case it
\* sleeps and returns true.
C6_FalseIffGivingUp ==
    call.op = "handle_rate_limit" =>
        LET last_attempt == call.attempt >= call.max_retries - 1
            other_error == call.error # NoError /\ ~IsRateLimitError(call.error)
        IN  IF last_attempt \/ other_error
            THEN call.ret = FALSE /\ ~call.sleep_called /\ call.ret_at = call.at
            ELSE call.ret = TRUE /\ call.sleep_called
                 /\ call.ret_at = call.at + call.slept

C6_Witness ==
    /\ call.op = "handle_rate_limit"
    /\ call.attempt < call.max_retries - 1
    /\ call.error # NoError /\ ~IsRateLimitError(call.error)
    /\ call.ret = FALSE /\ call.ret_at = call.at

\* C7: whenever handle_rate_limit returns true it slept exactly
\* min(base_wait * 2^attempt, max_sleep), base_wait being 180 with an error
\* object and min_sleep without; the sleep never exceeds max_sleep and is
\* non-decreasing in attempt.
C7_SleepIsCappedBackoff ==
    /\ (call.op = "handle_rate_limit" /\ call.ret) =>
        LET base_wait == IF call.error = NoError THEN min_sleep ELSE 180
        IN  /\ call.slept = Min(base_wait * (2 ^ call.attempt), max_sleep)
            /\ call.slept <= max_sleep
            /\ call.ret_at - call.at = call.slept
    /\ \A error \in Errors : \A a1, a2 \in 0..MaxAttempt :
        a1 <= a2 => BackoffTime(a1, error) <= BackoffTime(a2, error)

C7_Witness ==
    /\ call.op = "handle_rate_limit" /\ call.ret
    /\ call.error # NoError /\ call.attempt = 1
    /\ call.slept = 360 /\ call.slept < max_sleep

\* C24: handle_rate_limit, whatever its arguments and whichever value it
\* returns, leaves _requests_count and _last_request as they were; the
\* wait() that follows it resets exactly when more than window_seconds
\* have passed since _last_request, the backoff's sleep included, and
\* blocks exactly when the count it then sees has reached the threshold
\* and the window has time left.
C24_BackoffLeavesWindow ==
    /\ call.op = "handle_rate_limit" =>
        /\ requests_count = call.pre_count
        /\ last_request = call.pre_start
    /\ (call.op = "wait" /\ call.prev_op = "handle_rate_limit") =>
        LET elapsed == call.at - call.pre_start
            count == IF call.reset THEN 0 ELSE call.pre_count
            left == IF call.reset THEN window_seconds
                    ELSE window_seconds - elapsed
        IN  /\ call.reset <=> elapsed > window_seconds
            /\ call.blocked <=> (count >= max_requests - buffer /\ left > 0)

\* a backoff that slept in the middle of a window with requests counted
C24_Witness ==
    /\ call.op = "handle_rate_limit"
    /\ call.ret
    /\ call.slept > 0
    /\ call.pre_count > 0
    /\ call.at - call.pre_start < window_seconds

\* the wait() after a backoff whose sleep carried the clock past the
\* window: it resets
C24_WitnessWait ==
    /\ call.op = "wait"
    /\ call.prev_op = "handle_rate_limit"
    /\ call.reset
    /\ call.prev_ret - call.pre_start > window_seconds

\* the letter c in either case; any other character as it is
BothCases(c) ==
    {c} \cup {UpperLetters[i] : i \in {j \in 1..Len(LowerLetters) :
                                          LowerLetters[j] = c}}

\* s holds sub, each letter of sub in either case
HoldsInAnyCase(sub, s) ==
    \E i \in 0..(Len(s) - Len(sub)) :
        \A j \in 1..Len(sub) : s[i + j] \in BothCases(sub[j])

\* C23: _is_rate_limit_error(error) is true exactly when str(error) holds
\* "429" or holds "rate limit" written in any letter case, and the call
\* changes nothing of the limiter.
C23_ClassifiesByText ==
    call.op = "is_rate_limit_error" =>
        /\ call.ret <=> \/ HoldsInAnyCase(Str429, call.error.text)
                        \/ HoldsInAnyCase(StrRateLimit, call.error.text)
        /\ requests_count = call.pre_count
        /\ last_request = call.pre_start
        /\ now = call.at

\* true for a text that holds "rate limit" in mixed case and no "429"
C23_Witness ==
    /\ call.op = "is_rate_limit_error"
    /\ call.ret
    /\ ~Contains(Str429, call.error.text)
    /\ ~Contains(StrRateLimit, call.error.text)

\* false for a text that is close to both: "ratelimit", "42 9"
C23_WitnessFalse ==
    /\ call.op = "is_rate_limit_error"
    /\ ~call.ret
    /\ Len(call.error.text) > 0

----------------------------------------------------------------------------
(* Cache: claims *)

\* The entry get(key) finds under its key, and its age at the call
HadEntry == call.key \in DOMAIN call.pre.cache
AgeAtCall == call.at - call.pre.cache[call.key].timestamp

\* C2: a get(k) that finds an entry older than ttl_seconds returns absent,
\* and after it k is no longer a key of the entries map.
C2_ExpiredEntryIsRemoved ==
    (call.op = "get" /\ HadEntry /\ AgeAtCall > expiry_seconds) =>
        /\ call.ret = Absent
        /\ call.key \notin DOMAIN cache

\* the expired entry is removed by the read itself, no sweep being due
C2_Witness ==
    /\ call.op = "get" /\ HadEntry /\ AgeAtCall > expiry_seconds
    /\ ~(call.at - call.pre.last_cleanup > cleanup_interval)
    /\ call.ret = Absent /\ call.key \notin DOMAIN cache

\* C3: with ttl_seconds > 0, set(k, v) on a non-empty key immediately
\* followed by get(k) at the same instant returns v, in any prior cache
\* state and whether or not that get runs a sweep.
C3_GetAfterSetReturnsValue ==
    (/\ call.op = "get" /\ call.key # ""
     /\ call.after_set.some /\ call.after_set.key = call.key
     /\ call.after_set.at = call.at
     /\ expiry_seconds > 0) =>
        call.ret = Found(call.after_set.value)

\* the get runs a sweep, which removes another key's expired entry
C3_Witness ==
    /\ call.op = "get" /\ call.key # ""
    /\ call.after_set.some /\ call.after_set.key = call.key
    /\ call.after_set.at = call.at
    /\ expiry_seconds > 0
    /\ call.at - call.pre.last_cleanup > cleanup_interval
    /\ last_cleanup = call.at
    /\ DOMAIN cache # DOMAIN call.pre.cache
    /\ call.ret = Found(call.after_set.value)

\* C9: get("") returns absent, and get("") and set("", v) leave the entries
\* map and last_cleanup unchanged, also when a sweep is due; the empty key
\* is never a key of the entries map.
C9_EmptyKeyIsNoOp ==
    /\ (call.op = "get" /\ call.key = "") =>
        /\ call.ret = Absent
        /\ cache = call.pre.cache /\ last_cleanup = call.pre.last_cleanup
    /\ (call.op = "set" /\ call.key = "") =>
        /\ cache = call.pre.cache /\ last_cleanup = call.pre.last_cleanup
    /\ "" \notin DOMAIN cache

\* get("") while a sweep is due and an expired entry is held
C9_Witness ==
    /\ call.op = "get" /\ call.key = ""
    /\ call.pre.cache # EmptyCache
    /\ call.at - call.pre.last_cleanup > cleanup_interval
    /\ \E k \in DOMAIN call.pre.cache :
        call.at - call.pre.cache[k].timestamp > expiry_seconds
    /\ cache = call.pre.cache

\* The cache state after get(keys[1]), ..., get(keys[n]) in turn at time t
RECURSIVE GetEach(_, _, _)
GetEach(st, keys, t) ==
    IF keys = <<>> THEN st
    ELSE LET r == GetFn(st, Head(keys), t)
         IN  GetEach([cache |-> r.cache, last_cleanup |-> r.last_cleanup],
                     Tail(keys), t)

KeysOf(keys) == {keys[i] : i \in 1..Len(keys)}

\* get_many's result maps each key of the list to what get(key) returns
SameResults ==
    /\ DOMAIN call.ret = KeysOf(call.keys)
    /\ \A k \in KeysOf(call.keys) :
        call.ret[k] = GetFn(call.pre, k, call.at).ret

\* get_many leaves the cache as get on each key in turn leaves it
SameState == CacheState = GetEach(call.pre, call.keys, call.at)

\* C10 as stated: for every cache state and every list of keys, the empty
\* list and lists holding the empty key included, get_many(keys) maps each
\* key to what get(key) returns and leaves the cache in the state that get
\* on each key in turn leaves it in.
C10_Original ==
    call.op = "get_many" => SameResults /\ SameState

\* C10 as amended: get_many(keys) maps each key to what get(key) returns
\* for every list of keys; it leaves the cache in the state that get on each
\* key in turn leaves it in whenever the list holds a non-empty key, the
\* cache is empty or no sweep is due; on an empty list or a list of empty
\* keys alone, with a sweep due on a non-empty cache, get_many runs the
\* sweep (expired entries removed, last_cleanup = now) and the gets change
\* nothing.
C10_BatchedGet ==
    call.op = "get_many" =>
        LET sweep_due == /\ call.pre.cache # EmptyCache
                         /\ call.at - call.pre.last_cleanup > cleanup_interval
            only_empty == KeysOf(call.keys) \subseteq {""}
        IN  /\ SameResults
            /\ ~(sweep_due /\ only_empty) => SameState
            /\ (sweep_due /\ only_empty) =>
                /\ GetEach(call.pre, call.keys, call.at) = call.pre
                /\ last_cleanup = call.at
                /\ last_cleanup # call.pre.last_cleanup
                /\ DOMAIN cache =
                    {k \in DOMAIN call.pre.cache :
                        call.at - call.pre.cache[k].timestamp <= expiry_seconds}
                /\ \A k \in DOMAIN cache : cache[k] = call.pre.cache[k]

\* a batch of one key twice and another, with a sweep due and an expired
\* entry under a requested key
C10_Witness ==
    /\ call.op = "get_many" /\ Len(call.keys) = 2
    /\ call.keys[1] # "" /\ call.keys[1] \in DOMAIN call.pre.cache
    /\ call.at - call.pre.cache[call.keys[1]].timestamp > expiry_seconds
    /\ call.at - call.pre.last_cleanup > cleanup_interval
    /\ call.ret[call.keys[1]] = Absent
    /\ \E k \in KeysOf(call.keys) : call.ret[k] # Absent

\* The keys a read was called with
Requested == IF call.op = "get" THEN {call.key} ELSE KeysOf(call.keys)

\* C12: whenever get(k) with non-empty k, or get_many, is called while
\* now - last_cleanup > cleanup_interval and the cache is non-empty, then
\* after the call no entry older than ttl_seconds remains under any key,
\* every non-expired entry is still present unchanged, and last_cleanup =
\* now; when that condition does not hold no sweep runs: the entries of
\* keys not requested and last_cleanup are unchanged.
C12_SweepWhenDue ==
    (\/ call.op = "get" /\ call.key # ""
     \/ call.op = "get_many") =>
        LET due == /\ DOMAIN call.pre.cache # {}
                   /\ call.at - call.pre.last_cleanup > cleanup_interval
            Fresh(k) == call.at - call.pre.cache[k].timestamp <= expiry_seconds
        IN  /\ DOMAIN cache \subseteq DOMAIN call.pre.cache
            /\ due =>
                /\ \A k \in DOMAIN cache :
                    call.at - cache[k].timestamp <= expiry_seconds
                /\ \A k \in DOMAIN call.pre.cache :
                    Fresh(k) => k \in DOMAIN cache /\ cache[k] = call.pre.cache[k]
                /\ last_cleanup = call.at
            /\ ~due =>
                /\ last_cleanup = call.pre.last_cleanup
                /\ \A k \in DOMAIN call.pre.cache \ Requested :
                    k \in DOMAIN cache /\ cache[k] = call.pre.cache[k]

\* a read of one key sweeps another key's expired entry and keeps its own
C12_Witness ==
    /\ call.op = "get" /\ call.key # ""
    /\ call.at - call.pre.last_cleanup > cleanup_interval
    /\ call.key \in DOMAIN cache
    /\ \E k \in DOMAIN call.pre.cache \ {call.key} :
        /\ call.at - call.pre.cache[k].timestamp > expiry_seconds
        /\ k \notin DOMAIN cache
    /\ last_cleanup = call.at /\ last_cleanup # call.pre.last_cleanup

\* C13: set(k, v2) on a non-empty key that is already present (expired or
\* not) replaces its value and resets its created_at to now: get(k) returns
\* v2 for every elapsed time <= ttl_seconds measured from the second set,
\* whatever the age of the first entry; set changes no other key's entry
\* and never runs a sweep or changes last_cleanup.
C13_SetOverwrites ==
    /\ (call.op = "set" /\ call.key # "" /\ HadEntry) =>
        /\ cache[call.key] = [data |-> call.value, timestamp |-> call.at]
        /\ \A d \in 0..expiry_seconds :
            GetFn(CacheState, call.key, call.at + d).ret = Found(call.value)
    /\ call.op = "set" =>
        /\ DOMAIN cache = DOMAIN call.pre.cache \cup ({call.key} \ {""})
        /\ \A k \in DOMAIN call.pre.cache \ {call.key} :
            cache[k] = call.pre.cache[k]
        /\ last_cleanup = call.pre.last_cleanup

\* the overwritten entry had expired and held the other value, another
\* key's expired entry is held, and a sweep is due
C13_Witness ==
    /\ call.op = "set" /\ call.key # "" /\ HadEntry
    /\ AgeAtCall > expiry_seconds
    /\ call.pre.cache[call.key].data # call.value
    /\ call.at - call.pre.last_cleanup > cleanup_interval
    /\ \E k \in DOMAIN cache \ {call.key} :
        call.at - cache[k].timestamp > expiry_seconds
    /\ cache[call.key] = [data |-> call.value, timestamp |-> call.at]

\* C28: an entry whose age is exactly expiry_seconds is not expired: a get
\* of its key returns its value, and neither that get nor the sweep of any
\* read removes or changes it; with expiry_seconds = 0 a get at the instant
\* of the set still returns the value that was set.
C28_ExpiryIsStrict ==
    /\ call.op \in {"get", "get_many"} =>
        \A k \in DOMAIN call.pre.cache :
            call.at - call.pre.cache[k].timestamp = expiry_seconds =>
                k \in DOMAIN cache /\ cache[k] = call.pre.cache[k]
    /\ (/\ call.op = "get" /\ call.key # ""
        /\ HadEntry /\ AgeAtCall = expiry_seconds) =>
            call.ret = Found(call.pre.cache[call.key].data)
    /\ (/\ call.op = "get" /\ call.key # ""
        /\ call.after_set.some /\ call.after_set.key = call.key
        /\ call.after_set.at = call.at
        /\ expiry_seconds = 0) =>
            call.ret = Found(call.after_set.value)

\* a get exactly expiry_seconds after the set, in which a sweep ran: the
\* value is returned and the entry stays
C28_Witness ==
    /\ call.op = "get" /\ call.key # ""
    /\ expiry_seconds > 0
    /\ HadEntry /\ AgeAtCall = expiry_seconds
    /\ last_cleanup = call.at /\ last_cleanup # call.pre.last_cleanup
    /\ call.ret.found
    /\ call.key \in DOMAIN cache

\* with expiry_seconds = 0: set, then get at the same instant
C28_WitnessZero ==
    /\ call.op = "get" /\ call.key # ""
    /\ expiry_seconds = 0
    /\ call.after_set.some /\ call.after_set.key = call.key
    /\ call.after_set.at = call.at
    /\ call.ret = Found(call.after_set.value)

\* An expired entry is held under key k.  It is absent once k is no key
\* of the map or a later set has put a fresh entry in its place.
Expired(k) ==
    k \in DOMAIN cache /\ IsExpired(cache[k].timestamp, now)

\* C11 as stated: in every execution in which time keeps advancing and
\* operations on the cache (get, get_many or set, on other keys) keep
\* occurring, every expired entry is eventually absent from the entries
\* map.
C11_Original ==
    \A k \in Keys \ {""} : [](Expired(k) => <>~Expired(k))

\* C11 as amended: in every execution in which time keeps advancing and
\* calls that reach the sweep test (get of a non-empty key, or get_many)
\* keep occurring, every expired entry is eventually absent from the
\* entries map; set and get("") never sweep.
C11_ExpiredEventuallySwept ==
    ([]<><<SweepingRead>>_vars) =>
        \A k \in Keys \ {""} : [](Expired(k) => <>~Expired(k))

\* a read of another key has swept an expired entry that was not read
C11_Witness ==
    /\ call.op = "get" /\ call.key = "b"
    /\ "a" \in DOMAIN call.pre.cache
    /\ IsExpired(call.pre.cache["a"].timestamp, call.at)
    /\ "a" \notin DOMAIN cache
    /\ "b" \in DOMAIN cache

\* No call of a thread has raised
NoOperationFails == \A t \in Threads : ~threads[t].raised

\* A get(k) entered after set(k, v) had completed, with no other set(k)
\* completing before it returns, returns v while v is within its TTL
NoWriteLost ==
    \A t \in Threads :
        LET th == threads[t]
        IN  (/\ th.pc = "idle" /\ th.op = "get" /\ ~th.raised
             /\ th.expect.some /\ th.stable
             /\ th.done_at - th.expect.at <= expiry_seconds) =>
                th.ret = Found(th.expect.value)

\* C14: the Cache is thread-safe: for every interleaving of the steps of
\* get, get_many and set executed by two threads sharing one Cache, no
\* operation fails, and a value written by a completed set is never lost
\* (a later get within the TTL returns it).
C14_ThreadSafe == NoOperationFails /\ NoWriteLost

----------------------------------------------------------------------------
(* ErrorTracker: claims *)

\* C21: a track() call logs the elevated-rate warning exactly when the count
\* it leaves for its error_type exceeds alert_threshold, and never raises;
\* so within one reset interval an error_type tracked n times has logged
\* n - alert_threshold warnings, none up to alert_threshold calls and
\* exactly one, on the last call, after alert_threshold + 1 calls.
C21_WarningAtCrossing ==
    /\ call.op = "track" =>
        /\ call.warned <=> error_counts[call.error_type] > alert_threshold
        /\ ~call.raised
    /\ \A k \in DOMAIN error_counts :
        CountOf(warnings, k) =
            IF error_counts[k] > alert_threshold
            THEN error_counts[k] - alert_threshold ELSE 0

\* the (alert_threshold + 1)-th track() of one error_type within an
\* interval, after calls that logged no warning: the first warning
C21_Witness ==
    /\ call.op = "track"
    /\ alert_threshold > 0
    /\ ~call.reset
    /\ error_counts[call.error_type] = alert_threshold + 1
    /\ call.warned
    /\ warnings[call.error_type] = 1

\* C22: a track(kind) call made when now - last_reset > reset_interval
\* leaves kind with count 1, no count for any other kind and last_reset =
\* now; a call made when now - last_reset <= reset_interval raises the
\* count of kind by one and leaves the other counts and last_reset alone.
C22_ResetClearsAll ==
    call.op = "track" =>
        IF call.at - call.pre_reset > reset_interval
        THEN /\ DOMAIN error_counts = {call.error_type}
             /\ error_counts[call.error_type] = 1
             /\ last_reset = call.at
        ELSE /\ DOMAIN error_counts =
                    DOMAIN call.pre_counts \cup {call.error_type}
             /\ error_counts[call.error_type] =
                    CountOf(call.pre_counts, call.error_type) + 1
             /\ \A k \in DOMAIN call.pre_counts \ {call.error_type} :
                    error_counts[k] = call.pre_counts[k]
             /\ last_reset = call.pre_reset

\* a track() after the interval that clears the counts of both kinds
C22_Witness ==
    /\ call.op = "track"
    /\ call.at - call.pre_reset > reset_interval
    /\ DOMAIN call.pre_counts = ErrorKinds
    /\ DOMAIN error_counts = {call.error_type}

----------------------------------------------------------------------------
(* The agent: claims *)

\* C17: the polling loop never terminates because a cycle raised: after a
\* cycle that raises an exception the loop sleeps the fixed cooldown
\* (300 s) and then starts another cycle, after a cycle that returns
\* normally it sleeps CHECK_INTERVAL (45 min) and then starts another;
\* cycles are started again and again (here: up to MaxCycles), and two
\* consecutive cycle starts are never closer than the cooldown.
C17_LoopKeepsPolling ==
    /\ [](loop.pc # "dead")
    /\ []((loop.cycles >= 1 /\ loop.pc = "top") =>
            /\ loop.outcome = "raises" => loop.slept = 300
            /\ loop.outcome = "returns" => loop.slept = 45 * 60
            /\ now - loop.started_at >= loop.slept)
    /\ [](loop.cycles >= 2 => loop.started_at - loop.previous_start >= 300)
    /\ \A n \in 0..(MaxCycles - 1) :
        (loop.cycles = n) ~> (loop.cycles = n + 1)

\* a cycle that raised, then the cooldown, then the next cycle started
C17_Witness ==
    /\ loop.cycles >= 2 /\ loop.pc = "run"
    /\ loop.outcome = "raises" /\ loop.slept = 300
    /\ loop.started_at - loop.previous_start = 300

\* C18: check_mentions and detect_image never propagate an exception to
\* their caller: whatever errors the social API or the inference network
\* raise, each returns a (status, message, data) result, with status FAILED
\* when its retries are exhausted.
C18_NoExceptionLeaves ==
    /\ call.op = "detect_image" =>
        /\ call.result.kind = "return"
        /\ call.result.status \in {"DONE", "FAILED"}
        /\ (/\ call.env.original = "tweet" /\ call.env.tweet_data = "data"
            /\ call.env.image
            /\ \A i \in 1..3 : call.env.subnet[i] # "ok") =>
                call.result.status = "FAILED" /\ call.result.calls = 3
    /\ call.op = "check_mentions" =>
        call.status \in {"running", "DONE", "FAILED"}

\* _get_original_tweet raised inside detect_image, which returned FAILED
C18_Witness ==
    /\ call.op = "detect_image"
    /\ call.env.original = "raises" /\ call.env.error = Error429
    /\ call.result.kind = "return" /\ call.result.status = "FAILED"

WellFormed ==
    \A i \in 1..Len(cm.mentions_data) :
        cm.mentions_data[i].valid /\ cm.mentions_data[i].dated

\* The number of mentions of the cycle created before the cutoff
OlderMentions ==
    Cardinality({i \in 1..Len(cm.mentions_data) :
                    cm.mentions_data[i].created_at < cm.cutoff_time})

C27_RateLimitEndsCycle ==
    /\ (/\ call.op = "check_mentions"
        /\ call.step \in {"get_me", "fetch"}
        /\ call.error.some
        /\ \/ HoldsInAnyCase(Str429, call.error.text)
           \/ HoldsInAnyCase(StrRateLimit, call.error.text)) =>
            /\ call.handled
            /\ now = call.at + 180
            /\ call.status = "FAILED"
            /\ call.detect_calls = 0
            /\ cm.analyzed_count = 0 /\ cm.processed_count = 0
            /\ pc = "idle"
    /\ (/\ call.op = "check_mentions"
        /\ call.step = "mention"
        /\ call.detect_calls = 2
        /\ call.second.kind = "raise"
        /\ IsRateLimitError(call.second.error)) =>
            /\ call.status = "FAILED"
            /\ pc = "idle"

\* the attempts of call_subnet that fail before the first that succeeds
FailedAttempts(subnet) ==
    IF subnet[1] = "ok" THEN 0
    ELSE IF subnet[2] = "ok" THEN 1
    ELSE IF subnet[3] = "ok" THEN 2 ELSE 3

\* detect_image got as far as the inference network
ReachedSubnet(env) ==
    env.original = "tweet" /\ env.tweet_data = "data" /\ env.image

\* C26: one detect_image call makes at most 3 call_subnet calls and sleeps
\* 5 * (attempt + 1) seconds after each failed attempt except the third
\* (5 s after the first, 10 s after the second); it posts at most one
\* reply, and only after a call_subnet that succeeded; when all three
\* attempts fail it returns FAILED and posts no reply.
C26_BoundedInference ==
    call.op = "detect_image" =>
        LET r == call.result
            failed == FailedAttempts(call.env.subnet)
        IN  /\ r.calls <= 3
            /\ r.replies <= 1
            /\ r.replies = 1 =>
                r.calls >= 1 /\ call.env.subnet[r.calls] = "ok"
            /\ ReachedSubnet(call.env) =>
                /\ r.calls = IF failed = 3 THEN 3 ELSE failed + 1
                /\ r.slept = CASE failed = 0 -> 0
                                [] failed = 1 -> 5
                                [] OTHER -> 5 + 10
                /\ failed = 3 => r.status = "FAILED" /\ r.replies = 0
                /\ failed < 3 => r.replies = 1
            /\ ~ReachedSubnet(call.env) => r.calls = 0 /\ r.replies = 0

\* three failed attempts, by status code and by exception: 15 s of sleep,
\* FAILED, no reply
C26_Witness ==
    /\ call.op = "detect_image"
    /\ ReachedSubnet(call.env)
    /\ call.env.subnet = <<"error_status", "raises", "error_status">>
    /\ call.result.calls = 3 /\ call.result.slept = 15
    /\ call.result.status = "FAILED" /\ call.result.replies = 0

RECURSIVE SumOf(_)
SumOf(seq) == IF seq = <<>> THEN 0 ELSE Head(seq) + SumOf(Tail(seq))

\* C25: one _get_tweet_data call sends at most 3 get_tweet requests.  The
\* request of attempt i that ends in a 429 error is followed by a sleep of
\* 60 * (i + 1) seconds; after the first two such errors another request
\* follows, after the third RuntimeError is raised, 180 s of sleep behind
\* it.  The first other error returns None and the first success returns
\* the data, both without a further request or sleep.
C25_AtMostThreeRequests ==
    call.op = "_get_tweet_data" =>
        /\ call.requests <= 3
        /\ call.sleeps = [i \in 1..Len(call.sleeps) |-> 60 * i]
        /\ now = call.at + SumOf(call.sleeps)
        /\ call.status = "running" =>
            /\ call.requests < 3
            /\ Len(call.sleeps) = call.requests
            /\ pc = "get_tweet"
        /\ call.status = "raises RuntimeError" =>
            /\ call.requests = 3
            /\ call.sleeps = <<60, 120, 180>>
        /\ call.status = "returns None" =>
            /\ call.outcome = "raises_other"
            /\ Len(call.sleeps) = call.requests - 1
        /\ call.status = "returns data" =>
            /\ call.outcome = "data"
            /\ Len(call.sleeps) = call.requests - 1
        /\ call.status # "running" => pc = "idle"

\* three 429 errors in a row: RuntimeError after 60 + 120 + 180 seconds
C25_Witness ==
    /\ call.op = "_get_tweet_data"
    /\ call.status = "raises RuntimeError"
    /\ call.requests = 3
    /\ now = call.at + 360

\* C8: at every point of an execution the number of social-API requests
\* issued is at most the number of RateLimiter.wait() calls completed.
C8_EveryRequestAfterWait == api_requests <= waits_completed

====
